---- MODULE Spec2Model ----
(***************************************************************************)
(* Model of the incremental Instagram crawl-and-sync pipeline              *)
(* (instagram_data_pipeline_v2.py): the watermark, the paginated fetcher   *)
(* with bounded retry, the post -> comment -> reply crawl with its         *)
(* per-post guard, the relational and vector-index writes, and the entry   *)
(* point main.                                                             *)
(*                                                                         *)
(* Spec      : the pipeline (runs of main / run() against a remote API     *)
(*             whose content grows while runs are in progress).            *)
(* SpecFetch : one call of _make_paginated_request, one loop iteration per *)
(*             step, over a page chain and a pattern of transport          *)
(*             failures.                                                   *)
(* SpecFetchLive : SpecFetch with the loop weakly fair (termination).      *)
(* SpecClean : clean_text applied to a string and then to its own result.  *)
(***************************************************************************)
EXTENDS Integers, Sequences, FiniteSets, TLC

\* ------------------------------------------------------------- bounds ----
\* Instants of the clock: 0 stands for datetime.min (no watermark stored),
\* the clock starts at 1.
MaxClock == 2
\* Runs (calls of main or run) in one behaviour.
MaxRuns == 2
\* Records per page of a listing in the pipeline specification.
PageSize == 1
\* Failures (of a fetch, of a processing step, of a store) in one behaviour.
MaxFailures == 1
\* Pages of the chain, and records per page, in the fetcher specification.
MaxPages == 3
MaxPageLen == 2
\* Characters of an input string in the clean_text specification.
MaxTextLen == 6

\* ---------------------------------------------------- program constants --
max_retries == 3

None == 0

\* ------------------------------------------------- the remote hierarchy --
\* The entities the remote API can hold, in API-returned order, and the
\* fixed parent relation between them.
PostOrder == <<"p1", "p2">>
CommentOrder == [p1 |-> <<"c1">>, p2 |-> <<>>]
ReplyOrder == [c1 |-> <<"r1">>]

PostIds == {"p1", "p2"}
CommentIds == {"c1"}
ReplyIds == {"r1"}
Entities == PostIds \cup CommentIds \cup ReplyIds

ParentOf(e) ==
  IF e \in PostIds THEN "none"
  ELSE IF e \in CommentIds
       THEN CHOOSE p \in PostIds : \E i \in 1..Len(CommentOrder[p]) : CommentOrder[p][i] = e
       ELSE CHOOSE c \in CommentIds : \E i \in 1..Len(ReplyOrder[c]) : ReplyOrder[c][i] = e

PostOf(e) ==
  IF e \in PostIds THEN e
  ELSE IF e \in CommentIds THEN ParentOf(e)
  ELSE ParentOf(ParentOf(e))

\* ------------------------------------------------------------ helpers ----
Range(s) == {s[i] : i \in 1..Len(s)}

Min(a, b) == IF a <= b THEN a ELSE b

VARIABLES
  \* the environment
  clock,            \* the current instant (datetime.now)
  remote,           \* entity -> its timestamp in the remote API, None if absent
  \* the stores
  stored,           \* metadata row last_fetch_time (None: no row)
  posts_table,      \* rows of the relational table posts
  comments_table,   \* rows of the relational table comments (comments and replies)
  pinecone,         \* records of the vector index
  \* the pipeline instance and the run in progress
  pc,               \* position of the run: idle, fetch_posts, post, fetch_comments,
                    \* comment, reply, upload, save
  has_instance,     \* a pipeline instance was constructed
  last_fetch_time,  \* self.last_fetch_time
  all_posts,        \* process_and_upload_data: all_posts
  pi,               \* index of the post of the for loop
  comments,         \* comments of that post
  ci,               \* index of the comment of the inner loop
  ri,               \* index of the reply reference of the innermost loop
  vectors,          \* process_and_upload_data: vectors
  via_main,         \* the run in progress was started by main
  status,           \* what main returned last (0: nothing yet, 200, 500)
  run_result,       \* how the last run() ended: none, returned, raised
  \* history of the run in progress (what it wrote, what failed in it)
  runs,             \* runs started so far
  stored_at_start,  \* the stored watermark when the run started
  run_rel,          \* ids upserted to the relational store by the run
  run_vec,          \* the batch the run sent to the vector index
  visited,          \* ids of the posts the for loop has taken up, in order
  failed_posts,     \* posts whose processing raised into the per-post guard
  embed_failed,     \* the embedding provider failed for a new entity in the run
  seen,             \* ids of the entities the API has returned to the run
  failures_at_start,\* the value of failures when the run started
  index_calls,      \* calls of pinecone_index.upsert made by the run
  reply_fetch,      \* the last fetch_reply call of the run: its post, the requests
                    \* it made, its outcome (none, ok, not200, raised)
  writes,           \* the external writes of the run that were carried out, in
                    \* their order: relational, index, watermark
  \* history across runs
  failures,         \* fetches and processing steps that have failed so far
  quiet,            \* consecutive main calls that ran the pipeline since the remote
                    \* data last changed (counted up to 2)
  prev_status,      \* what the main call before the current one returned
  \* one call of _make_paginated_request (SpecFetch)
  chain,            \* the page chain served by the API: url -> page
  fst,              \* the locals of the call (url, params, retry_count, all_data)
                    \* and the requests it has made
  fpc,              \* loop, returned
  \* clean_text applied to a string and to its own result (SpecClean)
  raw,              \* the input string
  cleaned,          \* clean_text(raw)
  recleaned,        \* clean_text(cleaned)
  cpc               \* unused, input, cleaned, recleaned

envVars == <<clock, remote>>
storeVars == <<posts_table, comments_table, pinecone>>
instVars == <<has_instance, last_fetch_time, via_main>>
loopVars == <<all_posts, pi, comments, ci, ri, vectors>>
runGhost == <<stored_at_start, run_rel, run_vec, visited, failed_posts, embed_failed>>
obsVars == <<seen, failures_at_start, index_calls, reply_fetch, writes>>
histVars == <<failures, quiet, prev_status>>
fetchVars == <<chain, fst, fpc>>
pipeVars == <<clock, remote, stored, posts_table, comments_table, pinecone, pc,
              has_instance, last_fetch_time, all_posts, pi, comments, ci, ri, vectors,
              via_main, status, run_result, runs, stored_at_start, run_rel, run_vec,
              visited, failed_posts, embed_failed, failures, quiet, prev_status,
              seen, failures_at_start, index_calls, reply_fetch, writes>>
cleanVars == <<raw, cleaned, recleaned, cpc>>
vars == <<pipeVars, fetchVars, cleanVars>>

\* ----------------------------------------------------------- clean_text --
\* A string is the sequence of its characters; the empty string is <<>>. An
\* emoji is one character, written as its code point. NoText is Python's None
\* where a string is expected (a key the API left out): no character is
\* "None", so no string equals it.
NoText == <<"None">>

UpperCase ==
  <<"A", "B", "C", "D", "E", "F", "G", "H", "I", "J", "K", "L", "M",
    "N", "O", "P", "Q", "R", "S", "T", "U", "V", "W", "X", "Y", "Z">>

LowerCase ==
  <<"a", "b", "c", "d", "e", "f", "g", "h", "i", "j", "k", "l", "m",
    "n", "o", "p", "q", "r", "s", "t", "u", "v", "w", "x", "y", "z">>

Letters == Range(UpperCase) \cup Range(LowerCase)

IsLetter(c) == c \in Letters

\* \s and \S
IsSpace(c) == c \in {" ", "\t", "\n"}

\* The names emoji.demojize gives (language='en').
EmojiName ==
  [g \in {"U+1F44B"} |-> <<"w", "a", "v", "i", "n", "g", "_", "h", "a", "n", "d">>]

\* emoji.demojize(text, language='en'): an emoji becomes :name:.
RECURSIVE Demojize(_)
Demojize(text) ==
  IF text = <<>> THEN <<>>
  ELSE (IF Head(text) \in DOMAIN EmojiName
        THEN <<":">> \o EmojiName[Head(text)] \o <<":">>
        ELSE <<Head(text)>>) \o Demojize(Tail(text))

\* text.lower()
LowerOf ==
  [c \in Range(UpperCase) |-> LowerCase[CHOOSE i \in 1..Len(UpperCase) : UpperCase[i] = c]]

LowerChar(c) == IF c \in DOMAIN LowerOf THEN LowerOf[c] ELSE c

Lower(text) == [i \in 1..Len(text) |-> LowerChar(text[i])]

\* The length of the longest run of \S characters of text that starts at i.
RECURSIVE NonSpaceRun(_, _)
NonSpaceRun(text, i) ==
  IF i > Len(text) \/ IsSpace(text[i]) THEN 0 ELSE 1 + NonSpaceRun(text, i + 1)

\* The length of the match of http\S+|www.\S+ that starts at i (0: none).
\* The dot matches any character but the newline; \S+ is greedy.
MatchLen(text, i) ==
  LET isHttp == i + 3 <= Len(text) /\ SubSeq(text, i, i + 3) = <<"h", "t", "t", "p">>
      isWww == /\ i + 3 <= Len(text)
               /\ SubSeq(text, i, i + 2) = <<"w", "w", "w">>
               /\ text[i + 3] # "\n"
      run == NonSpaceRun(text, i + 4)
  IN IF (isHttp \/ isWww) /\ run > 0 THEN 4 + run ELSE 0

\* re.sub(r'http\S+|www.\S+', '', text): the matches are found left to right
\* and do not overlap.
RECURSIVE StripUrlsFrom(_, _)
StripUrlsFrom(text, i) ==
  IF i > Len(text) THEN <<>>
  ELSE IF MatchLen(text, i) > 0 THEN StripUrlsFrom(text, i + MatchLen(text, i))
  ELSE <<text[i]>> \o StripUrlsFrom(text, i + 1)

StripUrls(text) == StripUrlsFrom(text, 1)

\* re.sub(r'[^a-zA-Z_:\s]', '', text)
IsKept(c) == IsLetter(c) \/ c = "_" \/ c = ":" \/ IsSpace(c)

StripChars(text) == SelectSeq(text, IsKept)

\* re.sub(r':', '', text)
IsNoColon(c) == c # ":"

StripColons(text) == SelectSeq(text, IsNoColon)

\* ' '.join(text.split()): the words of text (its runs of \S characters),
\* one space between two of them.
RECURSIVE JoinSplitFrom(_, _, _)
JoinSplitFrom(text, i, pending) ==
  IF i > Len(text) THEN <<>>
  ELSE IF IsSpace(text[i]) THEN JoinSplitFrom(text, i + 1, pending)
  ELSE (IF pending /\ i > 1 /\ IsSpace(text[i - 1]) THEN <<" ">> ELSE <<>>)
         \o <<text[i]>> \o JoinSplitFrom(text, i + 1, TRUE)

JoinSplit(text) == JoinSplitFrom(text, 1, FALSE)

clean_text(text) ==
  IF text = NoText THEN <<>>
  ELSE JoinSplit(StripColons(StripChars(StripUrls(Lower(Demojize(text))))))

\* ------------------------------------------- _make_paginated_request ----
\* A page response: the JSON object of one request. hasData / hasPaging say
\* whether the keys 'data' / 'paging' are present; next is the url of
\* paging.next (None when absent or null). A url is the index of its page.
PageData(page) == IF page.hasData THEN page.data ELSE <<>>

PageNext(page) == IF page.hasPaging THEN page.next ELSE None

\* The locals at the start of a call (all_data = [], retry_count = 0); log is
\* the history of the requests made: <<url, params, succeeded>>.
StartFetch(url) ==
  [url |-> url, params |-> "initial", retry_count |-> 0, all_data |-> <<>>, log |-> <<>>]

LoopCondOffByOne(st) == st.url # None /\ st.retry_count <= max_retries

\* The while condition.
LoopCond(st) == st.url # None /\ st.retry_count < max_retries

OnSuccessOverwrites(st, page) ==
  LET next == PageNext(page) IN
  [url |-> next,
   params |-> IF next # None THEN "empty" ELSE st.params,
   retry_count |-> 0,
   all_data |-> PageData(page),
   log |-> Append(st.log, <<st.url, st.params, TRUE>>)]

OnSuccessForgetsOnMissingData(st, page) ==
  LET next == PageNext(page) IN
  [url |-> next,
   params |-> IF next # None THEN "empty" ELSE st.params,
   retry_count |-> 0,
   all_data |-> IF page.hasData THEN st.all_data \o page.data ELSE <<>>,
   log |-> Append(st.log, <<st.url, st.params, TRUE>>)]

OnSuccessKeepsRetryCount(st, page) ==
  LET next == PageNext(page) IN
  [url |-> next,
   params |-> IF next # None THEN "empty" ELSE st.params,
   retry_count |-> st.retry_count,
   all_data |-> st.all_data \o PageData(page),
   log |-> Append(st.log, <<st.url, st.params, TRUE>>)]

\* The try branch: the request succeeded and returned `page`.
OnSuccess(st, page) ==
  LET next == PageNext(page) IN
  [url |-> next,
   params |-> IF next # None THEN "empty" ELSE st.params,
   retry_count |-> 0,
   all_data |-> st.all_data \o PageData(page),
   log |-> Append(st.log, <<st.url, st.params, TRUE>>)]

OnFailureDropsData(st) ==
  [st EXCEPT !.retry_count = @ + 1,
             !.all_data = <<>>,
             !.log = Append(st.log, <<st.url, st.params, FALSE>>)]

OnFailureForgetsCount(st) ==
  [st EXCEPT !.log = Append(st.log, <<st.url, st.params, FALSE>>)]

\* The except branch: requests.RequestException.
OnFailure(st) ==
  [st EXCEPT !.retry_count = @ + 1,
             !.log = Append(st.log, <<st.url, st.params, FALSE>>)]

\* One iteration of the while loop.
Attempt(st, pages, ok) == IF ok THEN OnSuccess(st, pages[st.url]) ELSE OnFailure(st)

\* The whole call, the requests of page u failing fails[u] times in a row
\* before one succeeds (max_retries or more: never succeeds).
RECURSIVE Paginate(_, _, _)
Paginate(st, pages, fails) ==
  IF ~LoopCond(st) THEN st
  ELSE Paginate(Attempt(st, pages, st.retry_count >= fails[st.url]), pages, fails)

MakePaginatedRequest(pages, fails) == Paginate(StartFetch(1), pages, fails)

\* The failure patterns of a call over `pages`.
FailPatterns(pages) == [DOMAIN pages -> 0..max_retries]

\* Some request of the call failed.
HadFailure(st) == \E i \in 1..Len(st.log) : ~st.log[i][3]

\* A listing of `items` as the API serves it: pages of PageSize records
\* chained by paging.next (an empty listing is one empty page).
NumPages(items) == IF Len(items) = 0 THEN 1 ELSE (Len(items) + PageSize - 1) \div PageSize

ChainOf(items) ==
  [k \in 1..NumPages(items) |->
     [hasData |-> TRUE,
      data |-> SubSeq(items, (k - 1) * PageSize + 1, Min(k * PageSize, Len(items))),
      hasPaging |-> TRUE,
      next |-> IF k < NumPages(items) THEN k + 1 ELSE None]]

\* ------------------------------------------------------ remote listings --
Exists(e) == remote[e] # None

ExistingIn(order) == SelectSeq(order, Exists)

\* The caption of a post and the text of a comment or reply, as the API
\* returns them; post p2 has no caption (the key is absent).
RawText ==
  [p1 |-> <<"H", "i", "!">>,
   c1 |-> <<"O", " ", " ", "k", "1">>,
   r1 |-> <<"w", "w", "w", ".", "x">>,
   p2 |-> NoText]

\* GET /me/media
PostRecord(p) == [id |-> p, timestamp |-> remote[p], caption |-> RawText[p]]

PostListing ==
  LET ids == ExistingIn(PostOrder) IN [i \in 1..Len(ids) |-> PostRecord(ids[i])]

\* GET /{post_id}/comments with fields id,text,timestamp,username,replies:
\* replies holds the references of the comment's replies (empty: key absent).
CommentRecord(c) ==
  [id |-> c, timestamp |-> remote[c], text |-> RawText[c],
   replies |-> ExistingIn(ReplyOrder[c])]

CommentListing(p) ==
  LET ids == ExistingIn(CommentOrder[p]) IN [i \in 1..Len(ids) |-> CommentRecord(ids[i])]

\* GET /{reply_id}
ReplyRecord(r) == [id |-> r, timestamp |-> remote[r], text |-> RawText[r]]

\* ------------------------------------------------------------- stores ----
\* upsert(row, on_conflict='id')
Upsert(table, row) == {r \in table : r.id # row.id} \cup {row}

Ids(table) == {r.id : r \in table}

\* The vector built for a new post / comment / reply.
PostVector(post) ==
  [id |-> post.id, type |-> "post", timestamp |-> post.timestamp,
   post_id |-> "absent", parent_comment_id |-> "absent",
   text |-> clean_text(post.caption)]

CommentVectorRawText(post, comment) ==
  [id |-> comment.id, type |-> "comment", timestamp |-> comment.timestamp,
   post_id |-> post.id, parent_comment_id |-> "absent",
   text |-> comment.text]

CommentVector(post, comment) ==
  [id |-> comment.id, type |-> "comment", timestamp |-> comment.timestamp,
   post_id |-> post.id, parent_comment_id |-> "absent",
   text |-> clean_text(comment.text)]

ReplyVector(post, comment, full_reply) ==
  [id |-> full_reply.id, type |-> "reply", timestamp |-> full_reply.timestamp,
   post_id |-> post.id, parent_comment_id |-> comment.id,
   text |-> clean_text(full_reply.text)]

\* comment_data / reply_data, the rows of the table comments.
CommentRow(post, comment) ==
  [id |-> comment.id, post_id |-> post.id, parent_comment_id |-> "absent",
   text |-> comment.text, timestamp |-> comment.timestamp, replied |-> FALSE]

ReplyRowSwapsParents(post, comment, full_reply) ==
  [id |-> full_reply.id, post_id |-> comment.id, parent_comment_id |-> post.id,
   text |-> full_reply.text, timestamp |-> full_reply.timestamp, replied |-> FALSE]

ReplyRow(post, comment, full_reply) ==
  [id |-> full_reply.id, post_id |-> post.id, parent_comment_id |-> comment.id,
   text |-> full_reply.text, timestamp |-> full_reply.timestamp, replied |-> FALSE]

IsNewOrEqual(record) == record.timestamp >= last_fetch_time

\* timestamp > self.last_fetch_time
IsNew(record) == record.timestamp > last_fetch_time

\* No fetch_reply call has been made.
NoReplyFetch == [post |-> "none", requests |-> 0, outcome |-> "none"]

\* --------------------------------------------------------------- Init ----
InitFetchIdle ==
  /\ chain = <<>>
  /\ fst = StartFetch(None)
  /\ fpc = "unused"

InitPipeline ==
  /\ clock = 1
  /\ remote = [e \in Entities |-> None]
  /\ stored = None
  /\ posts_table = {}
  /\ comments_table = {}
  /\ pinecone = {}
  /\ pc = "idle"
  /\ has_instance = FALSE
  /\ last_fetch_time = None
  /\ all_posts = <<>>
  /\ pi = 0
  /\ comments = <<>>
  /\ ci = 0
  /\ ri = 0
  /\ vectors = <<>>
  /\ via_main = FALSE
  /\ status = 0
  /\ run_result = "none"
  /\ runs = 0
  /\ stored_at_start = None
  /\ run_rel = {}
  /\ run_vec = <<>>
  /\ visited = <<>>
  /\ failed_posts = {}
  /\ embed_failed = FALSE
  /\ seen = {}
  /\ failures_at_start = 0
  /\ index_calls = 0
  /\ reply_fetch = NoReplyFetch
  /\ writes = <<>>
  /\ failures = 0
  /\ quiet = 0
  /\ prev_status = 0

InitCleanIdle ==
  /\ raw = NoText
  /\ cleaned = NoText
  /\ recleaned = NoText
  /\ cpc = "unused"

Init == InitPipeline /\ InitFetchIdle /\ InitCleanIdle

\* -------------------------------------------------------- environment ----
\* The instants the clock can show when it is read next: time does not run
\* backward. (Time that passes unobserved is not a step of its own.)
Now == {t \in {clock, clock + 1} : t <= MaxClock}

\* A user publishes entity e (under an existing parent) at instant t. An
\* entity published after the watermark was written carries a later
\* timestamp than the watermark.
RemoteCreate(e, t) ==
  /\ remote[e] = None
  /\ e \notin PostIds => remote[ParentOf(e)] # None
  /\ t > stored
  /\ remote' = [remote EXCEPT ![e] = t]
  /\ clock' = t
  /\ quiet' = 0
  /\ UNCHANGED <<stored, storeVars, pc, instVars, loopVars, status, run_result, runs,
                 runGhost, obsVars, failures, prev_status, fetchVars, cleanVars>>

\* ------------------------------------------------------ starting a run ----
LoadLastFetchTimeNeverLoads == None

\* load_last_fetch_time: the stored value, or datetime.min when there is no row.
\* (The row holds the isoformat of a UTC instant; fromisoformat followed by
\* replace(tzinfo=utc) gives that instant back.)
LoadLastFetchTime == stored

StartRun ==
  /\ pc' = "fetch_posts"
  /\ runs' = runs + 1
  /\ run_result' = "none"
  /\ stored_at_start' = stored
  /\ run_rel' = {}
  /\ run_vec' = <<>>
  /\ visited' = <<>>
  /\ failed_posts' = {}
  /\ embed_failed' = FALSE
  /\ seen' = {}
  /\ failures_at_start' = failures
  /\ index_calls' = 0
  /\ writes' = <<>>
  /\ reply_fetch' = NoReplyFetch
  /\ UNCHANGED <<envVars, stored, storeVars, loopVars, failures, fetchVars, cleanVars>>

\* main: a new pipeline is constructed (__init__ loads the watermark) and run.
MainStart ==
  /\ pc = "idle"
  /\ runs < MaxRuns
  /\ has_instance' = TRUE
  /\ last_fetch_time' = LoadLastFetchTime
  /\ via_main' = TRUE
  /\ prev_status' = status
  /\ status' = 0
  /\ quiet' = Min(quiet + 1, 2)
  /\ StartRun

\* main: the construction of the pipeline raises (a missing environment
\* variable, a store that cannot be reached); main returns 500.
MainInitFails ==
  /\ pc = "idle"
  /\ runs < MaxRuns
  /\ runs' = runs + 1
  /\ prev_status' = status
  /\ status' = 500
  /\ quiet' = 0
  /\ run_result' = "none"
  /\ stored_at_start' = stored
  /\ run_rel' = {}
  /\ run_vec' = <<>>
  /\ visited' = <<>>
  /\ failed_posts' = {}
  /\ embed_failed' = FALSE
  /\ seen' = {}
  /\ failures_at_start' = failures
  /\ index_calls' = 0
  /\ writes' = <<>>
  /\ reply_fetch' = NoReplyFetch
  /\ failures < MaxFailures
  /\ failures' = failures + 1
  /\ UNCHANGED <<envVars, stored, storeVars, pc, has_instance, last_fetch_time, loopVars,
                 via_main, fetchVars, cleanVars>>

\* run() is called again on the pipeline instance that exists.
RunAgain ==
  /\ pc = "idle"
  /\ runs < MaxRuns
  /\ has_instance
  /\ via_main' = FALSE
  /\ quiet' = 0
  /\ UNCHANGED <<has_instance, last_fetch_time, status, prev_status>>
  /\ StartRun

\* ------------------------------------------------------- ending a run ----
\* The crawl is over: its loop history is dropped.
EndCrawl ==
  /\ visited' = <<>>
  /\ failed_posts' = {}
  /\ seen' = {}
  /\ reply_fetch' = NoReplyFetch
  /\ UNCHANGED <<embed_failed, failures_at_start>>

RunRaisesReports200 ==
  /\ pc' = "idle"
  /\ run_result' = "raised"
  /\ status' = IF via_main THEN 200 ELSE status
  /\ failures < MaxFailures
  /\ failures' = failures + 1
  /\ all_posts' = <<>>
  /\ pi' = 0
  /\ comments' = <<>>
  /\ ci' = 0
  /\ ri' = 0
  /\ vectors' = <<>>
  /\ EndCrawl

\* An exception leaves process_and_upload_data or save_last_fetch_time: run
\* logs and re-raises it, and main (when it made the call) returns 500.
RunRaises ==
  /\ pc' = "idle"
  /\ run_result' = "raised"
  /\ status' = IF via_main THEN 500 ELSE status
  /\ failures < MaxFailures
  /\ failures' = failures + 1
  /\ all_posts' = <<>>
  /\ pi' = 0
  /\ comments' = <<>>
  /\ ci' = 0
  /\ ri' = 0
  /\ vectors' = <<>>
  /\ EndCrawl

\* ------------------------------------------- process_and_upload_data ----
\* What a step of the crawl leaves alone.
stepFrame == <<envVars, stored, pinecone, instVars, status, run_result, runs,
               stored_at_start, run_vec, quiet, prev_status, failures_at_start, index_calls,
               fetchVars, cleanVars>>

\* The for loop over all_posts takes up post i, or ends.
EnterPost(posts, i) ==
  /\ pi' = i
  /\ pc' = IF i <= Len(posts) THEN "post" ELSE "upload"
  /\ comments' = <<>>
  /\ ci' = 0
  /\ ri' = 0

\* The loop over comments takes up comment j of cs, or ends (time.sleep, next post).
EnterComment(cs, j) ==
  IF j <= Len(cs)
  THEN /\ pc' = "comment"
       /\ comments' = cs
       /\ ci' = j
       /\ ri' = 0
       /\ pi' = pi
  ELSE EnterPost(all_posts, pi + 1)

\* The loop over comment['replies']['data'] takes up reference k, or ends.
EnterReply(k) ==
  IF k <= Len(comments[ci].replies)
  THEN /\ pc' = "reply"
       /\ ri' = k
       /\ UNCHANGED <<pi, comments, ci>>
  ELSE EnterComment(comments, ci + 1)

PostGuardBreaksLoop ==
  /\ failures < MaxFailures
  /\ failed_posts' = failed_posts \cup {all_posts[pi].id}
  /\ failures' = failures + 1
  /\ EnterPost(all_posts, Len(all_posts) + 1)

\* except Exception: the error is logged and the for loop goes on with the
\* next post.
PostGuard ==
  /\ failed_posts' = failed_posts \cup {all_posts[pi].id}
  /\ failures < MaxFailures
  /\ failures' = failures + 1
  /\ EnterPost(all_posts, pi + 1)

\* fetch_all_posts: the paginated listing of the posts.
FetchAllPosts ==
  /\ pc = "fetch_posts"
  /\ \E fails \in FailPatterns(ChainOf(PostListing)) :
       LET st == MakePaginatedRequest(ChainOf(PostListing), fails) IN
       /\ all_posts' = st.all_data
       /\ failures' = failures + (IF HadFailure(st) THEN 1 ELSE 0)
       /\ failures' <= MaxFailures
       /\ EnterPost(st.all_data, 1)
  /\ vectors' = <<>>
  /\ UNCHANGED <<posts_table, comments_table, run_rel, visited, failed_posts, embed_failed>>
  /\ UNCHANGED stepFrame
  /\ UNCHANGED writes
  /\ seen' = seen \cup Ids(Range(all_posts'))
  /\ UNCHANGED reply_fetch

\* fetch_all_posts raises something that is no RequestException (a response
\* body that is no JSON object): nothing guards it in process_and_upload_data.
FetchAllPostsRaises ==
  /\ pc = "fetch_posts"
  /\ RunRaises
  /\ UNCHANGED <<envVars, stored, storeVars, instVars, runs, stored_at_start, run_rel, run_vec,
                 quiet, prev_status, fetchVars, cleanVars>>
  /\ UNCHANGED <<index_calls, writes>>

CurrentPost == all_posts[pi]

ProcessPostIndexesAtOnce ==
  /\ pc = "post"
  /\ visited' = Append(visited, CurrentPost.id)
  /\ IF IsNew(CurrentPost)
     THEN /\ vectors' = Append(vectors, PostVector(CurrentPost))
          /\ pinecone' = {r \in pinecone : r.id # CurrentPost.id} \cup {PostVector(CurrentPost)}
          /\ index_calls' = index_calls + 1
          /\ posts_table' = Upsert(posts_table, CurrentPost)
          /\ run_rel' = run_rel \cup {CurrentPost.id}
          /\ writes' = writes \o <<"index", "relational">>
     ELSE UNCHANGED <<vectors, pinecone, index_calls, posts_table, run_rel, writes>>
  /\ pc' = "fetch_comments"
  /\ UNCHANGED <<all_posts, pi, comments, ci, ri, comments_table, failed_posts, embed_failed,
                 failures>>
  /\ UNCHANGED <<envVars, stored, instVars, status, run_result, runs, stored_at_start,
                 run_vec, quiet, prev_status, failures_at_start, fetchVars, cleanVars>>
  /\ UNCHANGED <<seen, reply_fetch>>

\* The post of the loop: a new post gets its embedding, its vector and its
\* row in posts; then its comments are fetched.
ProcessPost ==
  /\ pc = "post"
  /\ visited' = Append(visited, CurrentPost.id)
  /\ IF IsNew(CurrentPost)
     THEN /\ vectors' = Append(vectors, PostVector(CurrentPost))
          /\ posts_table' = Upsert(posts_table, CurrentPost)
          /\ run_rel' = run_rel \cup {CurrentPost.id}
          /\ writes' = Append(writes, "relational")
     ELSE UNCHANGED <<vectors, posts_table, run_rel, writes>>
  /\ pc' = "fetch_comments"
  /\ UNCHANGED <<all_posts, pi, comments, ci, ri, comments_table, failed_posts, embed_failed,
                 failures>>
  /\ UNCHANGED stepFrame
  /\ UNCHANGED <<seen, reply_fetch>>

\* generate_embedding raises for a new post.
PostEmbeddingFails ==
  /\ pc = "post"
  /\ IsNew(CurrentPost)
  /\ visited' = Append(visited, CurrentPost.id)
  /\ embed_failed' = TRUE
  /\ PostGuard
  /\ UNCHANGED <<all_posts, vectors, posts_table, comments_table, run_rel>>
  /\ UNCHANGED stepFrame
  /\ UNCHANGED writes
  /\ UNCHANGED <<seen, reply_fetch>>

\* The upsert into posts raises: the vector was appended before it.
PostUpsertFails ==
  /\ pc = "post"
  /\ IsNew(CurrentPost)
  /\ visited' = Append(visited, CurrentPost.id)
  /\ vectors' = Append(vectors, PostVector(CurrentPost))
  /\ PostGuard
  /\ UNCHANGED <<all_posts, posts_table, comments_table, run_rel, embed_failed>>
  /\ UNCHANGED stepFrame
  /\ UNCHANGED writes
  /\ UNCHANGED <<seen, reply_fetch>>

\* fetch_comments(post['id']): the paginated listing of the post's comments.
FetchComments ==
  /\ pc = "fetch_comments"
  /\ \E fails \in FailPatterns(ChainOf(CommentListing(CurrentPost.id))) :
       LET st == MakePaginatedRequest(ChainOf(CommentListing(CurrentPost.id)), fails) IN
       /\ failures' = failures + (IF HadFailure(st) THEN 1 ELSE 0)
       /\ failures' <= MaxFailures
       /\ EnterComment(st.all_data, 1)
  /\ UNCHANGED <<all_posts, vectors, posts_table, comments_table, run_rel, visited,
                 failed_posts, embed_failed>>
  /\ UNCHANGED stepFrame
  /\ UNCHANGED writes
  /\ seen' = seen \cup Ids(Range(comments'))
  /\ UNCHANGED reply_fetch

\* fetch_comments raises something that is no RequestException.
FetchCommentsRaises ==
  /\ pc = "fetch_comments"
  /\ PostGuard
  /\ UNCHANGED <<all_posts, vectors, posts_table, comments_table, run_rel, visited,
                 embed_failed>>
  /\ UNCHANGED stepFrame
  /\ UNCHANGED writes
  /\ UNCHANGED <<seen, reply_fetch>>

CurrentComment == comments[ci]

\* The comment of the loop: a new comment gets its embedding, its vector and
\* its row in comments; then its inline reply references are walked.
ProcessComment ==
  /\ pc = "comment"
  /\ IF IsNew(CurrentComment)
     THEN /\ vectors' = Append(vectors, CommentVector(CurrentPost, CurrentComment))
          /\ comments_table' = Upsert(comments_table, CommentRow(CurrentPost, CurrentComment))
          /\ run_rel' = run_rel \cup {CurrentComment.id}
          /\ writes' = Append(writes, "relational")
     ELSE UNCHANGED <<vectors, comments_table, run_rel, writes>>
  /\ EnterReply(1)
  /\ UNCHANGED <<all_posts, posts_table, visited, failed_posts, embed_failed, failures>>
  /\ UNCHANGED stepFrame
  /\ UNCHANGED <<seen, reply_fetch>>

CommentEmbeddingFails ==
  /\ pc = "comment"
  /\ IsNew(CurrentComment)
  /\ embed_failed' = TRUE
  /\ PostGuard
  /\ UNCHANGED <<all_posts, vectors, posts_table, comments_table, run_rel, visited>>
  /\ UNCHANGED stepFrame
  /\ UNCHANGED writes
  /\ UNCHANGED <<seen, reply_fetch>>

CommentUpsertFails ==
  /\ pc = "comment"
  /\ IsNew(CurrentComment)
  /\ vectors' = Append(vectors, CommentVector(CurrentPost, CurrentComment))
  /\ PostGuard
  /\ UNCHANGED <<all_posts, posts_table, comments_table, run_rel, visited, embed_failed>>
  /\ UNCHANGED stepFrame
  /\ UNCHANGED writes
  /\ UNCHANGED <<seen, reply_fetch>>

\* fetch_reply(reply_id): one requests.get, made once; what the call came to
\* is recorded with the post whose block made it.
FetchReply(outcome) == [post |-> CurrentPost.id, requests |-> 1, outcome |-> outcome]

\* fetch_reply(reply_data['id']) answered 200 with the full reply.
CurrentReply == ReplyRecord(comments[ci].replies[ri])

ProcessReply ==
  /\ pc = "reply"
  /\ IF IsNew(CurrentReply)
     THEN /\ vectors' = Append(vectors, ReplyVector(CurrentPost, CurrentComment, CurrentReply))
          /\ comments_table' =
               Upsert(comments_table, ReplyRow(CurrentPost, CurrentComment, CurrentReply))
          /\ run_rel' = run_rel \cup {CurrentReply.id}
          /\ writes' = Append(writes, "relational")
     ELSE UNCHANGED <<vectors, comments_table, run_rel, writes>>
  /\ EnterReply(ri + 1)
  /\ UNCHANGED <<all_posts, posts_table, visited, failed_posts, embed_failed, failures>>
  /\ UNCHANGED stepFrame
  /\ seen' = seen \cup {CurrentReply.id}
  /\ reply_fetch' = FetchReply("ok")

\* fetch_reply got a status other than 200 and returned None: the reply is
\* skipped.
FetchReplyNot200 ==
  /\ pc = "reply"
  /\ failures < MaxFailures
  /\ failures' = failures + 1
  /\ EnterReply(ri + 1)
  /\ UNCHANGED <<all_posts, vectors, posts_table, comments_table, run_rel, visited,
                 failed_posts, embed_failed>>
  /\ UNCHANGED stepFrame
  /\ UNCHANGED writes
  /\ reply_fetch' = FetchReply("not200")
  /\ UNCHANGED seen

\* requests.get raises in fetch_reply (no retry, no guard of its own).
FetchReplyRaises ==
  /\ pc = "reply"
  /\ PostGuard
  /\ UNCHANGED <<all_posts, vectors, posts_table, comments_table, run_rel, visited,
                 embed_failed>>
  /\ UNCHANGED stepFrame
  /\ UNCHANGED writes
  /\ reply_fetch' = FetchReply("raised")
  /\ UNCHANGED seen

ReplyEmbeddingFails ==
  /\ pc = "reply"
  /\ IsNew(CurrentReply)
  /\ embed_failed' = TRUE
  /\ PostGuard
  /\ UNCHANGED <<all_posts, vectors, posts_table, comments_table, run_rel, visited>>
  /\ UNCHANGED stepFrame
  /\ UNCHANGED writes
  /\ seen' = seen \cup {CurrentReply.id}
  /\ reply_fetch' = FetchReply("ok")

ReplyUpsertFails ==
  /\ pc = "reply"
  /\ IsNew(CurrentReply)
  /\ vectors' = Append(vectors, ReplyVector(CurrentPost, CurrentComment, CurrentReply))
  /\ PostGuard
  /\ UNCHANGED <<all_posts, posts_table, comments_table, run_rel, visited, embed_failed>>
  /\ UNCHANGED stepFrame
  /\ UNCHANGED writes
  /\ seen' = seen \cup {CurrentReply.id}
  /\ reply_fetch' = FetchReply("ok")

\* if vectors: self.pinecone_index.upsert(vectors=vectors); else nothing.
PineconeUpsert(index, batch) ==
  {r \in index : \A i \in 1..Len(batch) : batch[i].id # r.id} \cup Range(batch)

UploadSavesWatermarkFirst ==
  /\ pc = "upload"
  /\ stored' = clock
  /\ IF vectors # <<>>
     THEN /\ pinecone' = PineconeUpsert(pinecone, vectors)
          /\ run_vec' = vectors
     ELSE UNCHANGED <<pinecone, run_vec>>
  /\ pc' = "save"
  /\ UNCHANGED <<envVars, posts_table, comments_table, instVars, loopVars, status,
                 run_result, runs, stored_at_start, run_rel, visited, failed_posts,
                 embed_failed, histVars, fetchVars, cleanVars>>
  /\ index_calls' = index_calls + (IF vectors # <<>> THEN 1 ELSE 0)
  /\ writes' = IF vectors # <<>> THEN Append(writes, "index") ELSE writes
  /\ UNCHANGED <<seen, failures_at_start, reply_fetch>>

UploadAlwaysCalls ==
  /\ pc = "upload"
  /\ pinecone' = PineconeUpsert(pinecone, vectors)
  /\ run_vec' = vectors
  /\ pc' = "save"
  /\ UNCHANGED <<envVars, stored, posts_table, comments_table, instVars, loopVars, status,
                 run_result, runs, stored_at_start, run_rel, visited, failed_posts,
                 embed_failed, histVars, fetchVars, cleanVars>>
  /\ index_calls' = index_calls + 1
  /\ writes' = Append(writes, "index")
  /\ UNCHANGED <<seen, failures_at_start, reply_fetch>>

Upload ==
  /\ pc = "upload"
  /\ IF vectors # <<>>
     THEN /\ pinecone' = PineconeUpsert(pinecone, vectors)
          /\ run_vec' = vectors
     ELSE UNCHANGED <<pinecone, run_vec>>
  /\ pc' = "save"
  /\ UNCHANGED <<envVars, stored, posts_table, comments_table, instVars, loopVars, status,
                 run_result, runs, stored_at_start, run_rel, visited, failed_posts,
                 embed_failed, histVars, fetchVars, cleanVars>>
  /\ index_calls' = index_calls + (IF vectors # <<>> THEN 1 ELSE 0)
  /\ writes' = IF vectors # <<>> THEN Append(writes, "index") ELSE writes
  /\ UNCHANGED <<seen, failures_at_start, reply_fetch>>

UploadRaisesAfterSave ==
  /\ pc = "upload"
  /\ vectors # <<>>
  /\ RunRaises
  /\ stored' = clock
  /\ UNCHANGED <<envVars, storeVars, instVars, runs, stored_at_start, run_rel, run_vec,
                 quiet, prev_status, fetchVars, cleanVars>>
  /\ index_calls' = index_calls + 1
  /\ UNCHANGED writes

\* The batch upsert into the vector index raises.
UploadRaises ==
  /\ pc = "upload"
  /\ vectors # <<>>
  /\ RunRaises
  /\ UNCHANGED <<envVars, stored, storeVars, instVars, runs, stored_at_start, run_rel, run_vec,
                 quiet, prev_status, fetchVars, cleanVars>>
  /\ index_calls' = index_calls + 1
  /\ UNCHANGED writes

\* ------------------------------------------------------------- run ----
\* save_last_fetch_time: the watermark becomes the current instant; run
\* returns, and main (when it made the call) returns 200.
SaveLastFetchTime(t) ==
  /\ pc = "save"
  /\ stored' = t
  /\ clock' = t
  /\ pc' = "idle"
  /\ run_result' = "returned"
  /\ status' = IF via_main THEN 200 ELSE status
  /\ all_posts' = <<>>
  /\ pi' = 0
  /\ comments' = <<>>
  /\ ci' = 0
  /\ ri' = 0
  /\ vectors' = <<>>
  /\ EndCrawl
  /\ UNCHANGED <<remote, storeVars, instVars, runs, stored_at_start, run_rel, run_vec, histVars,
                 fetchVars, cleanVars>>
  /\ UNCHANGED index_calls
  /\ writes' = Append(writes, "watermark")

\* The upsert of the metadata row raises (the store did not take the write):
\* the row keeps its value.
SaveRaises ==
  /\ pc = "save"
  /\ RunRaises
  /\ UNCHANGED <<envVars, stored, storeVars, instVars, runs, stored_at_start, run_rel, run_vec,
                 quiet, prev_status, fetchVars, cleanVars>>
  /\ UNCHANGED <<index_calls, writes>>

NextPipeline ==
  \/ \E e \in Entities, t \in Now : RemoteCreate(e, t)
  \/ MainStart
  \/ MainInitFails
  \/ RunAgain
  \/ FetchAllPosts
  \/ FetchAllPostsRaises
  \/ ProcessPost
  \/ PostEmbeddingFails
  \/ PostUpsertFails
  \/ FetchComments
  \/ FetchCommentsRaises
  \/ ProcessComment
  \/ CommentEmbeddingFails
  \/ CommentUpsertFails
  \/ ProcessReply
  \/ FetchReplyNot200
  \/ FetchReplyRaises
  \/ ReplyEmbeddingFails
  \/ ReplyUpsertFails
  \/ Upload
  \/ UploadRaises
  \/ \E t \in Now : SaveLastFetchTime(t)
  \/ SaveRaises

Spec == Init /\ [][NextPipeline]_vars

\* --------------------------- one call of _make_paginated_request, stepwise --
\* The chains of n pages: page k < n links to page k + 1, the last page has
\* no next (paging.next null, or no paging key); a page holds up to
\* MaxPageLen records, or lacks the data key. Record <<k, i>> is the i-th
\* record of page k.
PageRecords(k, len) == [i \in 1..len |-> <<k, i>>]

Chains ==
  UNION {
    { [k \in 1..n |->
         [hasData |-> lens[k] >= 0,
          data |-> IF lens[k] >= 0 THEN PageRecords(k, lens[k]) ELSE <<>>,
          hasPaging |-> (k < n \/ lastPaging),
          next |-> IF k < n THEN k + 1 ELSE None]]
      : lens \in [1..n -> -1..MaxPageLen], lastPaging \in BOOLEAN }
    : n \in 1..MaxPages }

InitFetch ==
  /\ InitPipeline
  /\ chain \in Chains
  /\ fst = StartFetch(1)
  /\ fpc = "loop"
  /\ InitCleanIdle

\* An iteration whose request succeeds.
RequestSucceeds ==
  /\ fpc = "loop"
  /\ LoopCond(fst)
  /\ fst' = Attempt(fst, chain, TRUE)
  /\ UNCHANGED <<chain, fpc, pipeVars, cleanVars>>

\* An iteration whose request raises requests.RequestException.
RequestFails ==
  /\ fpc = "loop"
  /\ LoopCond(fst)
  /\ fst' = Attempt(fst, chain, FALSE)
  /\ UNCHANGED <<chain, fpc, pipeVars, cleanVars>>

\* The loop condition is false: return all_data.
FetchReturn ==
  /\ fpc = "loop"
  /\ ~LoopCond(fst)
  /\ fpc' = "returned"
  /\ UNCHANGED <<chain, fst, pipeVars, cleanVars>>

NextFetch ==
  \/ RequestSucceeds
  \/ RequestFails
  \/ FetchReturn

SpecFetch == InitFetch /\ [][NextFetch]_vars

\* The call is not suspended for ever: every request comes back (with a
\* response or with an exception) and every time.sleep ends, so the thread
\* goes on to its next iteration, or to the return.
SpecFetchLive == SpecFetch /\ WF_vars(NextFetch)

\* ------------------------------------------- clean_text applied twice ----
\* The characters the input strings are made of: a letter in both cases, a
\* digit, a punctuation mark, the colon, the underscore and the space.
Alphabet == {"w", "W", "1", ".", ":", "_", " "}

\* The input strings: None and the strings of up to MaxTextLen characters.
Texts == {NoText} \cup UNION {[1..n -> Alphabet] : n \in 0..MaxTextLen}

InitClean ==
  /\ InitPipeline
  /\ InitFetchIdle
  /\ raw \in Texts
  /\ cleaned = NoText
  /\ recleaned = NoText
  /\ cpc = "input"

\* cleaned = clean_text(raw)
CleanText ==
  /\ cpc = "input"
  /\ cleaned' = clean_text(raw)
  /\ cpc' = "cleaned"
  /\ UNCHANGED <<raw, recleaned, pipeVars, fetchVars>>

\* recleaned = clean_text(cleaned)
CleanAgain ==
  /\ cpc = "cleaned"
  /\ recleaned' = clean_text(cleaned)
  /\ cpc' = "recleaned"
  /\ UNCHANGED <<raw, cleaned, pipeVars, fetchVars>>

NextClean ==
  \/ CleanText
  \/ CleanAgain

SpecClean == InitClean /\ [][NextClean]_vars

\* ================================================================ claims ==
WrittenIds == Ids(posts_table) \cup Ids(comments_table)

BatchIds(batch) == {batch[i].id : i \in 1..Len(batch)}

\* C1: a run that raised has left the stored watermark at the value it had
\* when the run started.
C1_RaisedRunKeepsWatermark == run_result = "raised" => stored = stored_at_start

\* A run wrote rows, then raised out of process_and_upload_data.
C1_Witness == run_result = "raised" /\ run_rel # {} /\ run_vec = <<>>

\* C2: the stored watermark never decreases, and a step changes it only when
\* it is the last step of a run that returns.
C2_WatermarkMonotone ==
  [][/\ stored' >= stored
     /\ stored' # stored => (pc = "save" /\ pc' = "idle" /\ run_result' = "returned")]_vars

\* A later run has moved the watermark forward from a value a run had stored.
C2_Witness == stored_at_start # None /\ stored > stored_at_start /\ run_result = "returned"

\* C3: a run in which the embedding provider failed for a new entity ends by
\* raising, with the watermark where it was.
C3_EmbeddingFailureIsFatal ==
  (embed_failed /\ pc = "idle") => (run_result = "raised" /\ stored = stored_at_start)

\* C4: no entity of a post whose processing raised has been upserted to the
\* relational store by the run, nor is in the batch the run sent to the index.
C4_FailedPostWritesNothing ==
  \A e \in Entities :
    PostOf(e) \in failed_posts => (e \notin run_rel /\ e \notin BatchIds(run_vec))

\* C5: the for loop takes up every post of all_posts, in order, whether or not
\* the processing of an earlier post raised, and then reaches the upload.
PostIdsUpTo(n) == [i \in 1..n |-> all_posts[i].id]

LoopTakesUpEveryPost ==
  /\ pc = "post" => visited = PostIdsUpTo(pi - 1)
  /\ pc \in {"fetch_comments", "comment", "reply"} => visited = PostIdsUpTo(pi)
  /\ pc \in {"upload", "save"} => visited = PostIdsUpTo(Len(all_posts))

\* The step in which the processing of a post raises leads to the next post
\* or, after the last post, to the upload: the run has not raised.
GuardedStep ==
  failed_posts' \ failed_posts # {} =>
    /\ run_result' = "none"
    /\ pi' = pi + 1
    /\ pc' = IF pi < Len(all_posts) THEN "post" ELSE "upload"

C5_PostFailureDoesNotAbort == []LoopTakesUpEveryPost /\ [][GuardedStep]_vars

\* The first post failed, the second was processed and written, and the loop
\* ended normally.
C5_Witness ==
  /\ pc = "upload"
  /\ failed_posts = {"p1"}
  /\ visited = <<"p1", "p2">>
  /\ "p2" \in run_rel

\* C6: a run that raised has written nothing to the relational store or to
\* the vector index.
C6_RaisedRunWroteNothing == run_result = "raised" => (run_rel = {} /\ run_vec = <<>>)

\* C7 (as stated): the second of two main calls in a row over unchanged remote
\* data upserts nothing.
C7_SecondRunWritesNothing ==
  (via_main /\ quiet = 2) => (run_rel = {} /\ vectors = <<>> /\ run_vec = <<>>)

\* C7 (amended): the second of two main calls in a row over unchanged remote
\* data upserts nothing when the first returned 200.
C7_SecondRunAfterSuccessWritesNothing ==
  (via_main /\ quiet = 2 /\ prev_status = 200) =>
    (run_rel = {} /\ vectors = <<>> /\ run_vec = <<>>)

\* The second call has crawled posts, a comment and a reply the first call
\* wrote, and is about to save.
C7_Witness ==
  /\ via_main /\ quiet = 2 /\ prev_status = 200
  /\ pc = "save"
  /\ Len(all_posts) = 2
  /\ WrittenIds = Entities

\* C8: between runs, when nothing has failed so far, every remote entity
\* whose timestamp is at or below the stored watermark is in the relational
\* store.
C8_SyncedUpToWatermark ==
  (pc = "idle" /\ failures = 0) =>
    \A e \in Entities : (Exists(e) /\ remote[e] <= stored) => e \in WrittenIds

\* C9: a call without a failed request returns the records of all pages in
\* page order and has made one request per page, page after page.
RECURSIVE ConcatPages(_, _)
ConcatPages(pages, n) ==
  IF n = 0 THEN <<>> ELSE ConcatPages(pages, n - 1) \o PageData(pages[n])

C9_PaginationExhaustion ==
  (fpc = "returned" /\ ~HadFailure(fst)) =>
    /\ fst.all_data = ConcatPages(chain, Len(chain))
    /\ Len(fst.log) = Len(chain)
    /\ \A i \in 1..Len(fst.log) : fst.log[i][1] = i

\* A chain of three pages with records on each was fetched without failure.
C9_Witness ==
  /\ fpc = "returned"
  /\ ~HadFailure(fst)
  /\ Len(chain) = 3
  /\ \A k \in 1..3 : Len(PageData(chain[k])) >= 1

\* C10: while every request has failed, at most max_retries requests have
\* been made; the call then returns (it does not raise) the empty list after
\* exactly max_retries requests.
AllFailed(st) == \A i \in 1..Len(st.log) : ~st.log[i][3]

C10_RetryCap ==
  AllFailed(fst) =>
    /\ Len(fst.log) <= max_retries
    /\ fpc = "returned" => (Len(fst.log) = max_retries /\ fst.all_data = <<>>)

\* Every request for a first page that holds records failed, and the call
\* returned.
C10_Witness ==
  /\ fpc = "returned"
  /\ AllFailed(fst)
  /\ Len(fst.log) = max_retries
  /\ Len(PageData(chain[1])) >= 1

\* C11: a fetch_reply call whose request raised has made max_retries requests
\* (it was retried up to the cap), and the post whose block made the call has
\* not failed, nor has the run raised: only the reply is missing.
C11_ReplyFetchRetriedAndDegrades ==
  reply_fetch.outcome = "raised" =>
    /\ reply_fetch.requests = max_retries
    /\ reply_fetch.post \notin failed_posts
    /\ run_result # "raised"

\* C12: in a run without failures an entity is written (row and vector record
\* together) only if the API returned it to the run and its timestamp is
\* greater than the watermark the run filters with, and once the crawl is over
\* every returned entity with a greater timestamp has been written, whatever
\* its parent's timestamp; a run started by main filters with the watermark
\* stored when it started.
RunWithoutFailures == pc # "idle" /\ failures = failures_at_start

CrawlDone == pc \in {"upload", "save"}

C12_WrittenIffNewer ==
  /\ (pc # "idle" /\ via_main) => last_fetch_time = stored_at_start
  /\ RunWithoutFailures =>
       /\ run_rel = BatchIds(vectors)
       /\ \A e \in run_rel : e \in seen /\ remote[e] > last_fetch_time
       /\ CrawlDone => \A e \in seen : remote[e] > last_fetch_time => e \in run_rel

\* A run of main without failures is over its crawl: post p1, whose timestamp
\* equals the watermark, was returned and not written, and its comment c1 was
\* written.
C12_Witness ==
  /\ RunWithoutFailures
  /\ via_main
  /\ pc = "save"
  /\ last_fetch_time # None
  /\ "p1" \in seen
  /\ remote["p1"] = last_fetch_time
  /\ "p1" \notin run_rel
  /\ "c1" \in run_rel
  /\ "c1" \in BatchIds(vectors)

\* C13: every comment record written (row of comments, vector of the batch or
\* of the index) carries the id of its post as post_id; every reply record
\* written carries the id of the comment that referenced it as
\* parent_comment_id and the id of that comment's post as post_id; replied is
\* FALSE on every row of comments.
WellParented(rec) ==
  /\ rec.id \in CommentIds =>
       rec.post_id = ParentOf(rec.id) /\ rec.parent_comment_id = "absent"
  /\ rec.id \in ReplyIds =>
       rec.parent_comment_id = ParentOf(rec.id) /\ rec.post_id = PostOf(rec.id)

C13_ParentIdsPropagated ==
  /\ \A row \in comments_table : WellParented(row) /\ row.replied = FALSE
  /\ \A rec \in pinecone : WellParented(rec)
  /\ \A i \in 1..Len(vectors) : WellParented(vectors[i])

\* The row and the indexed vector of reply r1 and of comment c1 are written.
C13_Witness ==
  /\ \E row \in comments_table :
       row.id = "r1" /\ row.parent_comment_id = "c1" /\ row.post_id = "p1"
  /\ \E row \in comments_table : row.id = "c1" /\ row.post_id = "p1"
  /\ \E rec \in pinecone : rec.id = "r1" /\ rec.type = "reply"
  /\ \E rec \in pinecone : rec.id = "c1" /\ rec.type = "comment"

\* C14: when the crawl of a run without failures is over, the batch holds one
\* record per new entity (returned to the run, timestamp greater than the
\* watermark) in discovery order, each with the kind of its entity as type and
\* clean_text of the entity's raw text as text; the ids of the batch are the
\* ids upserted to the relational tables in the run; and that batch is what
\* the index has received once the upload is done.
DiscoveryOrder == <<"p1", "c1", "r1", "p2">>

Kind(e) == IF e \in PostIds THEN "post" ELSE IF e \in CommentIds THEN "comment" ELSE "reply"

IsNewSeen(e) == e \in seen /\ remote[e] > last_fetch_time

C14_BatchShape ==
  (RunWithoutFailures /\ CrawlDone) =>
    LET new == SelectSeq(DiscoveryOrder, IsNewSeen) IN
    /\ Len(vectors) = Len(new)
    /\ \A i \in 1..Len(vectors) :
         /\ vectors[i].id = new[i]
         /\ vectors[i].type = Kind(new[i])
         /\ vectors[i].text = clean_text(RawText[new[i]])
    /\ BatchIds(vectors) = run_rel
    /\ (pc = "save" /\ vectors # <<>>) => run_vec = vectors

\* A run without failures has sent a batch of four records: a post with its
\* comment and the comment's reply, and a second post; the text of the first
\* is the normalized caption.
C14_Witness ==
  /\ RunWithoutFailures
  /\ pc = "save"
  /\ Len(run_vec) = 4
  /\ run_vec[1].text = <<"h", "i">>
  /\ run_vec[2].text = <<"o", " ", "k">>
  /\ run_vec[3].text = <<>>
  /\ run_vec[4].text = <<>>

\* C15: a run calls the index upsert at most once, and not before its crawl
\* is over. The step that leaves the upload stage makes the one call, with
\* the whole batch, when the batch is not empty, and makes no call and does
\* not raise when it is empty; the run that then returns has written the
\* watermark.
AtMostOneIndexCall ==
  /\ index_calls \in {0, 1}
  /\ pc \in {"fetch_posts", "post", "fetch_comments", "comment", "reply", "upload"} =>
       index_calls = 0
  /\ pc = "save" => (index_calls = 1 <=> vectors # <<>>)

UploadStep ==
  /\ (pc = "upload" /\ pc' # "upload") =>
       IF vectors = <<>>
       THEN pc' = "save" /\ index_calls' = 0 /\ pinecone' = pinecone
       ELSE /\ index_calls' = 1
            /\ pc' = "save" => (run_vec' = vectors /\ Range(vectors) \subseteq pinecone')
  /\ (pc # "upload" /\ pc # "idle") => index_calls' = index_calls
  /\ (pc = "save" /\ run_result' = "returned") => (stored' = clock' /\ stored' >= stored)

C15_SingleBatchUpsert == []AtMostOneIndexCall /\ [][UploadStep]_vars

\* The second run found nothing new: it made no index call, returned, and
\* moved the watermark forward; the index holds the batch of the first run.
C15_Witness ==
  /\ pc = "idle"
  /\ runs = 2
  /\ run_result = "returned"
  /\ index_calls = 0
  /\ pinecone # {}
  /\ stored > stored_at_start

\* C16: clean_text applied to its own result gives that result again:
\* clean_text(clean_text(x)) = clean_text(x) for every input string x.
C16_CleanTextIdempotent == cpc = "recleaned" => recleaned = cleaned

\* C17: all_data holds, request after request, the records of the pages that
\* were fetched and have the data key, and nothing for a fetched page that
\* lacks it: such a page adds no record and takes none away. A fetched page
\* that lacks the paging key ends the pagination: the loop condition is false
\* and the call returns all_data.
RECURSIVE LogRecords(_, _)
LogRecords(log, n) ==
  IF n = 0 THEN <<>>
  ELSE LogRecords(log, n - 1)
         \o (IF log[n][3] /\ chain[log[n][1]].hasData THEN chain[log[n][1]].data ELSE <<>>)

LastFetched(st) == chain[st.log[Len(st.log)][1]]

C17_MalformedPageIsEmpty ==
  /\ fst.all_data = LogRecords(fst.log, Len(fst.log))
  /\ (Len(fst.log) > 0 /\ fst.log[Len(fst.log)][3] /\ ~LastFetched(fst).hasPaging) =>
       fst.url = None /\ ~LoopCond(fst)

\* The call returned the records of page 1: page 2 lacks the data key
\* and page 3, the last, lacks the data key and the paging key.
C17_Witness ==
  /\ fpc = "returned"
  /\ Len(chain) = 3
  /\ Len(PageData(chain[1])) = 2
  /\ ~chain[2].hasData
  /\ ~chain[3].hasData
  /\ ~chain[3].hasPaging
  /\ Len(fst.log) = 3
  /\ ~HadFailure(fst)
  /\ fst.all_data = chain[1].data

\* C18: a call of main ends with status 200 or 500 and in no other way. It
\* ends with 500 exactly when the construction of the pipeline raised or the
\* run it started raised, and with 200 exactly when that run returned, which
\* it does in the step that writes the watermark.
MainAlwaysAnswers ==
  /\ status \in {0, 200, 500}
  /\ (pc = "idle" /\ via_main) => status \in {200, 500}
  /\ status = 0 => (runs = 0 \/ (via_main /\ pc # "idle"))

ConstructionRaised == pc = "idle" /\ pc' = "idle" /\ runs' = runs + 1

RunOfMainEnds(result) == via_main /\ pc # "idle" /\ pc' = "idle" /\ run_result' = result

MainStatusStep ==
  /\ (ConstructionRaised \/ RunOfMainEnds("raised")) => status' = 500
  /\ RunOfMainEnds("returned") => status' = 200
  /\ (status' = 500 /\ status # 500) =>
       (ConstructionRaised \/ RunOfMainEnds("raised"))
  /\ (status' = 200 /\ status # 200) =>
       (RunOfMainEnds("returned") /\ pc = "save" /\ stored' = clock')
  /\ (pc # "idle" /\ pc' = "idle") => run_result' \in {"returned", "raised"}

C18_MainStatus == []MainAlwaysAnswers /\ [][MainStatusStep]_vars

\* A call of main returned 200 and the next one, whose run raised after it
\* had written rows, returned 500.
C18_Witness ==
  /\ pc = "idle"
  /\ via_main
  /\ prev_status = 200
  /\ status = 500
  /\ run_result = "raised"
  /\ run_rel # {}

\* C19: whatever requests have failed, all_data is the concatenation of the
\* records of the first k pages of the chain, k being the number of requests
\* that succeeded; the requests that succeeded fetched pages 1, 2, ..., k in
\* that order, each once. When the call returns, either the chain is
\* exhausted (k is its length) or the retries of page k + 1 are: the records
\* of the k pages before it are returned.
Succeeded(entry) == entry[3]

Successes(log) == SelectSeq(log, Succeeded)

C19_WholePagePrefix ==
  LET done == Successes(fst.log) IN
  /\ fst.all_data = ConcatPages(chain, Len(done))
  /\ \A k \in 1..Len(done) : done[k][1] = k
  /\ fpc = "returned" =>
       \/ fst.url = None /\ Len(done) = Len(chain)
       \/ fst.url = Len(done) + 1 /\ fst.retry_count = max_retries

\* Pages 1 and 2, with records on each, were fetched, one of them after a
\* failed request, and the retries of page 3 were exhausted: the call
\* returned the records of pages 1 and 2.
C19_Witness ==
  /\ fpc = "returned"
  /\ Len(chain) = 3
  /\ fst.url = 3
  /\ Len(fst.log) >= 6
  /\ Len(PageData(chain[1])) >= 1
  /\ Len(PageData(chain[2])) >= 1
  /\ fst.all_data = PageData(chain[1]) \o PageData(chain[2])

\* C20: retry_count is the number of requests that have failed since the last
\* one that succeeded (or since the start), and never exceeds max_retries; the
\* request after a failed one asks for the same url with the same params;
\* the call returns before the chain is exhausted exactly when the last
\* max_retries requests, all for one page, have failed.
RECURSIVE TrailingFailures(_, _)
TrailingFailures(log, n) ==
  IF n = 0 \/ log[n][3] THEN 0 ELSE 1 + TrailingFailures(log, n - 1)

C20_RetryBudgetPerPage ==
  LET n == Len(fst.log) IN
  /\ fst.retry_count = TrailingFailures(fst.log, n)
  /\ fst.retry_count <= max_retries
  /\ \A i \in 1..(n - 1) :
       ~fst.log[i][3] => (fst.log[i + 1][1] = fst.log[i][1] /\ fst.log[i + 1][2] = fst.log[i][2])
  /\ (fpc = "loop" /\ fst.url # None /\ TrailingFailures(fst.log, n) < max_retries) =>
       LoopCond(fst)
  /\ (fpc = "returned" /\ fst.url # None) =>
       /\ TrailingFailures(fst.log, n) = max_retries
       /\ \A i \in (n - max_retries + 1)..n : fst.log[i][1] = fst.url

\* Two requests failed for page 1 and two for page 2, each page was then
\* fetched, and the call went on to fetch page 3 and returned with the chain
\* exhausted: four failures, more than max_retries, did not abort it.
C20_Witness ==
  /\ fpc = "returned"
  /\ fst.url = None
  /\ Len(chain) = 3
  /\ Len(fst.log) = 7
  /\ \A i \in {1, 2, 4, 5} : ~fst.log[i][3]
  /\ \A i \in {3, 6, 7} : fst.log[i][3]

\* C21: the writes a run has carried out are, in this order, its relational
\* upserts (one per entity written), then at most one index upsert, then at
\* most one watermark write, which is the last write of the run. The
\* watermark is written only by a run whose index upsert returned or whose
\* batch was empty.
Rank(w) == IF w = "relational" THEN 1 ELSE IF w = "index" THEN 2 ELSE 3

Count(w) == Cardinality({i \in 1..Len(writes) : writes[i] = w})

C21_WriteOrder ==
  /\ \A i \in 1..Len(writes), j \in 1..Len(writes) :
       i < j => (Rank(writes[i]) <= Rank(writes[j]) /\ (Rank(writes[i]) = 1 \/ writes[i] # writes[j]))
  /\ Count("relational") = Cardinality(run_rel)
  /\ Count("index") = (IF run_vec # <<>> THEN 1 ELSE 0)
  /\ pc = "save" => (Count("index") = 1 <=> vectors # <<>>)
  /\ Count("watermark") = 1 <=> (runs > 0 /\ pc = "idle" /\ run_result = "returned")
  /\ pc # "idle" => Count("watermark") = 0

\* A run has upserted three rows, then the batch, then the watermark.
C21_Witness ==
  /\ pc = "idle"
  /\ writes = <<"relational", "relational", "relational", "index", "watermark">>
  /\ stored > stored_at_start

\* C22: over a chain whose next cursors lead from page k to page k + 1, and
\* whatever requests fail, every iteration of the loop either moves url
\* forward (fewer pages are left) or leaves url where it is and adds one to
\* retry_count, which stays within max_retries; and the call returns.
PagesLeft(st) == IF st.url = None THEN 0 ELSE Len(chain) - st.url + 1

IterationProgresses ==
  (fpc = "loop" /\ fst' # fst) =>
    \/ PagesLeft(fst') < PagesLeft(fst) /\ fst'.retry_count = 0
    \/ /\ PagesLeft(fst') = PagesLeft(fst)
       /\ fst'.retry_count = fst.retry_count + 1
       /\ fst'.retry_count <= max_retries

C22_PaginationTerminates == [][IterationProgresses]_vars /\ <>(fpc = "returned")

\* The longest call over three pages has returned: every page took
\* max_retries requests.
C22_Witness ==
  /\ fpc = "returned"
  /\ Len(chain) = 3
  /\ Len(fst.log) = 3 * max_retries
  /\ HadFailure(fst)

\* C23: the watermark a run filters with is the one that was stored when the
\* run started (the value written by the last run that returned), also when
\* the run is a further call of run() on a pipeline that has run before.
C23_RunFiltersWithStoredWatermark == pc # "idle" => last_fetch_time = stored_at_start

====
